---------------------------- MODULE Spec2Model ----------------------------
(***************************************************************************)
(* The shader module system of axis3d (src/src/core/shader.js): the        *)
(* ShaderLib (fragment store, define table, compiled-text cache, directive *)
(* walker) and the Shader component that decides, once per frame tick,     *)
(* whether to recompile.                                                   *)
(*                                                                         *)
(* A text is a sequence of one-character strings.  null is the empty       *)
(* tuple and a present value v of an optional is <<v>>, so that a text and *)
(* its absence are never compared with each other.                         *)
(***************************************************************************)
EXTENDS Naturals, Sequences, FiniteSets, TLC

(***************************************************************************)
(* Characters and texts                                                    *)
(***************************************************************************)

\* The printable ASCII characters in code order, from 32 (space) to 126.
Ascii ==
  << " ", "!", "\"", "#", "$", "%", "&", "'", "(", ")", "*", "+", ",", "-",
     ".", "/", "0", "1", "2", "3", "4", "5", "6", "7", "8", "9", ":", ";",
     "<", "=", ">", "?", "@", "A", "B", "C", "D", "E", "F", "G", "H", "I",
     "J", "K", "L", "M", "N", "O", "P", "Q", "R", "S", "T", "U", "V", "W",
     "X", "Y", "Z", "[", "backslash", "]", "^", "_", "backtick",
     "a", "b", "c", "d", "e",
     "f", "g", "h", "i", "j", "k", "l", "m", "n", "o", "p", "q", "r", "s",
     "t", "u", "v", "w", "x", "y", "z", "{", "|", "}", "~" >>

NL == "\n"

CodeTable ==
  [c \in {Ascii[i] : i \in 1..Len(Ascii)} |->
     31 + (CHOOSE i \in 1..Len(Ascii) : Ascii[i] = c)]

\* c.charCodeAt(0)
charCodeAt(c) == IF c = NL THEN 10 ELSE CodeTable[c]

HexDigits ==
  << "0", "1", "2", "3", "4", "5", "6", "7", "8", "9",
     "a", "b", "c", "d", "e", "f" >>

\* Number.prototype.toString(16)
RECURSIVE toString16(_)
toString16(n) ==
  IF n < 16 THEN << HexDigits[n + 1] >>
  ELSE Append(toString16(n \div 16), HexDigits[(n % 16) + 1])

RECURSIVE SumCodes(_)
SumCodes(s) == IF s = <<>> THEN 0 ELSE charCodeAt(Head(s)) + SumCodes(Tail(s))

\* An absent value (null or undefined) and a present one.
null == <<>>
Some(v) == <<v>>
IsSome(o) == Len(o) = 1
Val(o) == o[1]

\* A string is truthy when it is not empty.
Truthy(s) == Len(s) > 0

IsPrefixAt(pat, s, i) ==
  /\ i + Len(pat) - 1 <= Len(s)
  /\ \A j \in 1..Len(pat) : s[i + j - 1] = pat[j]

StartsWith(s, pat) == IsPrefixAt(pat, s, 1)

\* The least index at or after i where pat occurs in s, or 0.
RECURSIVE IndexFrom(_, _, _)
IndexFrom(s, pat, i) ==
  IF i + Len(pat) - 1 > Len(s) THEN 0
  ELSE IF IsPrefixAt(pat, s, i) THEN i
  ELSE IndexFrom(s, pat, i + 1)

IndexOf(s, pat) == IndexFrom(s, pat, 1)

Slice(s, from, to) == IF from > to THEN <<>> ELSE SubSeq(s, from, to)

\* String.prototype.replace(pat, rep) with a string pattern: the first
\* occurrence only.
ReplaceFirst(s, pat, rep) ==
  LET i == IndexOf(s, pat) IN
    IF i = 0 \/ pat = <<>> THEN s
    ELSE Slice(s, 1, i - 1) \o rep \o Slice(s, i + Len(pat), Len(s))

\* String.prototype.split on the newline: the lines of s, one more than its newlines.
RECURSIVE SplitNL(_)
SplitNL(s) ==
  LET i == IndexOf(s, << NL >>) IN
    IF i = 0 THEN << s >>
    ELSE << Slice(s, 1, i - 1) >> \o SplitNL(Slice(s, i + 1, Len(s)))

\* Array.prototype.join with the newline
RECURSIVE JoinNL(_)
JoinNL(ls) ==
  IF ls = <<>> THEN <<>>
  ELSE IF Len(ls) = 1 THEN ls[1]
  ELSE ls[1] \o << NL >> \o JoinNL(Tail(ls))

RECURSIVE Concat(_)
Concat(ss) == IF ss = <<>> THEN <<>> ELSE Head(ss) \o Concat(Tail(ss))

IsSpace(c) == c \in {" ", "\t", NL, "\r"}
IsLower(c) == c # NL /\ c # "\t" /\ c # "\r" /\ charCodeAt(c) \in 97..122

\* String.prototype.trim()
RECURSIVE TrimLeft(_)
TrimLeft(s) ==
  IF s # <<>> /\ IsSpace(Head(s)) THEN TrimLeft(Tail(s)) ELSE s

RECURSIVE TrimRight(_)
TrimRight(s) ==
  IF s # <<>> /\ IsSpace(s[Len(s)]) THEN TrimRight(Slice(s, 1, Len(s) - 1))
  ELSE s

Trim(s) == TrimRight(TrimLeft(s))


LastIndexOfChar(s, c) ==
  IF \E i \in 1..Len(s) : s[i] = c
  THEN CHOOSE i \in 1..Len(s) : s[i] = c /\ \A j \in (i + 1)..Len(s) : s[j] # c
  ELSE 0

(***************************************************************************)
(* Constants of shader.js                                                  *)
(***************************************************************************)

kDefaultShaderLibPrecision ==
  << "m", "e", "d", "i", "u", "m", "p", " ", "f", "l", "o", "a", "t" >>

kAnonymousShaderName ==
  << "<", "a", "n", "o", "n", "y", "m", "o", "u", "s", ">" >>

kPrecisionWord == << "p", "r", "e", "c", "i", "s", "i", "o", "n" >>
kDefineWord == << "#", "d", "e", "f", "i", "n", "e" >>
kIncludeWord == << "#", "i", "n", "c", "l", "u", "d", "e" >>
kGlslifyLine ==
  kDefineWord \o << " ", "G", "L", "S", "L", "I", "F", "Y", " ", "1", NL >>
kNullKey == << "n", "u", "l", "l" >>

(***************************************************************************)
(* DynamicValue (core/gl): an object used as a string-keyed table.         *)
(***************************************************************************)

\* table.set(key, value)
DynamicValue_set(table, key, value) ==
  [k \in DOMAIN table \cup {key} |-> IF k = key THEN value ELSE table[k]]

\* table[key]: the value, or undefined
DynamicValue_get(table, key) ==
  IF key \in DOMAIN table THEN Some(table[key]) ELSE null

EmptyTable == [k \in {} |-> <<>>]

(***************************************************************************)
(* ShaderLib: hash, path resolution                                        *)
(***************************************************************************)

\* ShaderLib.hash: null for anything but a string, else the sum of the
\* character codes written in base 16.
hash(source) ==
  IF ~IsSome(source) THEN null ELSE Some(toString16(SumCodes(Val(source))))

\* The property key a value indexes an object with: null indexes "null".
PropertyKey(o) == IF IsSome(o) THEN Val(o) ELSE kNullKey

\* The segments of a path between its slashes.
RECURSIVE SplitSlash(_)
SplitSlash(s) ==
  LET i == IndexOf(s, << "/" >>) IN
    IF i = 0 THEN << s >>
    ELSE << Slice(s, 1, i - 1) >> \o SplitSlash(Slice(s, i + 1, Len(s)))

\* path.resolve applied to segments: '' and '.' are dropped, '..' pops.
RECURSIVE NormalizeSegments(_, _)
NormalizeSegments(segs, acc) ==
  IF segs = <<>> THEN acc
  ELSE LET g == Head(segs) IN
    IF g = <<>> \/ g = << "." >> THEN NormalizeSegments(Tail(segs), acc)
    ELSE IF g = << ".", "." >>
      THEN NormalizeSegments(Tail(segs), Slice(acc, 1, Len(acc) - 1))
    ELSE NormalizeSegments(Tail(segs), Append(acc, g))

RECURSIVE JoinSlash(_)
JoinSlash(segs) ==
  IF segs = <<>> THEN <<>> ELSE << "/" >> \o Head(segs) \o JoinSlash(Tail(segs))

\* path.resolve(a, b): an absolute b replaces a; the result is absolute.
PathResolve(a, b) ==
  LET segs == IF b # <<>> /\ b[1] = "/" THEN SplitSlash(b)
              ELSE SplitSlash(a) \o SplitSlash(b)
      norm == NormalizeSegments(segs, <<>>)
  IN IF norm = <<>> THEN << "/" >> ELSE JoinSlash(norm)

\* path.dirname
dirname(p) ==
  LET i == LastIndexOfChar(p, "/") IN
    IF i = 0 THEN << "." >>
    ELSE IF i = 1 THEN << "/" >>
    ELSE Slice(p, 1, i - 1)

\* path.extname: from the last dot of the last segment, unless that dot
\* opens the segment.
extname(p) ==
  LET base == Slice(p, LastIndexOfChar(p, "/") + 1, Len(p))
      i == LastIndexOfChar(base, ".")
  IN IF i <= 1 \/ base = << ".", "." >> THEN <<>> ELSE Slice(base, i, Len(base))

\* ShaderLib.resolve(path, root)
resolve(path, root) ==
  LET r == PathResolve(<< "/" >>, root)
      p == ReplaceFirst(path, extname(path), <<>>)
      abs == PathResolve(r, p)
  IN Slice(abs, 2, Len(abs))


(***************************************************************************)
(* Objects with ordered keys: a sequence of <<key, value>> pairs in        *)
(* insertion order (the define tables are enumerated in that order).       *)
(***************************************************************************)

ObjHas(o, k) == \E i \in 1..Len(o) : o[i][1] = k
ObjGet(o, k) == o[CHOOSE i \in 1..Len(o) : o[i][1] = k][2]
ObjSet(o, k, v) ==
  IF ObjHas(o, k)
  THEN [i \in 1..Len(o) |-> IF o[i][1] = k THEN << k, v >> ELSE o[i]]
  ELSE Append(o, << k, v >>)

\* utils.assign(target, source): every key of source is set on target.
RECURSIVE assign(_, _)
assign(target, source) ==
  IF source = <<>> THEN target
  ELSE assign(ObjSet(target, Head(source)[1], Head(source)[2]), Tail(source))

(***************************************************************************)
(* ShaderLibPreprocessor.define                                            *)
(*                                                                         *)
(* A raw define value is [type, s]: a string with text s, a boolean with s *)
(* "true" or "false", or null.                                             *)
(***************************************************************************)

StrVal(t) == [type |-> "string", s |-> t]
BoolVal(b) == [type |-> "boolean", s |-> IF b THEN << "t", "r", "u", "e" >>
                                          ELSE << "f", "a", "l", "s", "e" >>]
NullVal == [type |-> "null", s |-> kNullKey]

\* A mutant of DefineString: a boolean is not made a number first.
DefineStringRaw(value) == value.s

\* boolean -> number, then any -> string
DefineString(value) ==
  IF value.type = "boolean"
  THEN (IF value.s = << "t", "r", "u", "e" >> THEN << "1" >> ELSE << "0" >>)
  ELSE value.s

\* define(key, value) for a string key: <<changed, table>>
defineOne(table, key, value) ==
  IF value.type # "null"
  THEN IF ~ObjHas(table, key) \/ DefineString(value) # ObjGet(table, key)
       THEN [changed |-> TRUE, table |-> ObjSet(table, key, DefineString(value))]
       ELSE [changed |-> FALSE, table |-> table]
  ELSE [changed |-> FALSE, table |-> table]

\* A mutant of define: the table is updated, no change is reported.
RECURSIVE defineUnreported(_, _)
defineUnreported(table, map) ==
  IF map = <<>> THEN [changed |-> FALSE, table |-> table]
  ELSE [changed |-> FALSE,
        table |-> defineUnreported(
                    defineOne(table, Head(map)[1], Head(map)[2]).table,
                    Tail(map)).table]

\* A mutant of define: the keys after the first one that changes are left.
RECURSIVE defineUntilChanged(_, _)
defineUntilChanged(table, map) ==
  IF map = <<>> THEN [changed |-> FALSE, table |-> table]
  ELSE IF defineOne(table, Head(map)[1], Head(map)[2]).changed
    THEN defineOne(table, Head(map)[1], Head(map)[2])
  ELSE defineUntilChanged(table, Tail(map))

\* define(map): define(k, map[k]) for every key; true when some call was.
RECURSIVE define(_, _)
define(table, map) ==
  IF map = <<>> THEN [changed |-> FALSE, table |-> table]
  ELSE LET one == defineOne(table, Head(map)[1], Head(map)[2])
           rest == define(one.table, Tail(map))
       IN [changed |-> one.changed \/ rest.changed, table |-> rest.table]

(***************************************************************************)
(* ShaderLib.add                                                           *)
(*                                                                         *)
(* An argument of add is a raw value [type, s] as above, or an object:     *)
(* type "object" with s the sequence of its <<key, value>> pairs.          *)
(***************************************************************************)

\* name.replace(/[\/]+/g, '/')
RECURSIVE CollapseSlashes(_)
CollapseSlashes(name) ==
  IF name = <<>> THEN <<>>
  ELSE IF Head(name) = "/" /\ Len(name) > 1 /\ name[2] = "/"
    THEN CollapseSlashes(Tail(name))
  ELSE << Head(name) >> \o CollapseSlashes(Tail(name))

\* add, walk(stack, scope), lines 230-237: the keys of scope in turn, the
\* stack joined with '/' being prefix.  A leaf that is not a string is
\* handed to add and ignored by it; null is an object without keys.
RECURSIVE addWalk(_, _, _)
addWalk(table, prefix, scope) ==
  IF scope = <<>> THEN table
  ELSE LET Key(path, value) ==
             IF value.type = "object" THEN addWalk(table, path, value.s)
             ELSE IF value.type = "string"
               THEN DynamicValue_set(table, CollapseSlashes(path), value.s)
             ELSE table
       IN addWalk(Key((IF prefix = <<>> THEN <<>> ELSE prefix \o << "/" >>)
                        \o Head(scope)[1],
                      Head(scope)[2]),
                  prefix, Tail(scope))

\* ShaderLib.add(name, source): this.store after the call
add(table, name, source) ==
  IF name.type = "string" /\ source.type = "string"
    THEN DynamicValue_set(table, CollapseSlashes(name.s), source.s)
  ELSE IF name.type = "object" THEN addWalk(table, <<>>, name.s)
  ELSE table

(***************************************************************************)
(* Text injection                                                          *)
(***************************************************************************)

\* glsl-inject-defines: one "#define KEY VALUE" line per key, in key order,
\* ahead of the source.
RECURSIVE injectDefines(_, _)
injectDefines(source, defs) ==
  IF defs = <<>> THEN source
  ELSE LET key == Head(defs)[1]
           val == Head(defs)[2]
           line == kDefineWord \o << " " >> \o key
                   \o (IF Truthy(val) THEN << " " >> \o val ELSE <<>>)
       IN line \o << NL >> \o injectDefines(source, Tail(defs))

kShaderNameGuard ==
  << "#", "i", "f", "n", "d", "e", "f", " ",
     "S", "H", "A", "D", "E", "R", "_", "N", "A", "M", "E" >>
kShaderNameDefine ==
  kDefineWord \o << " ", "S", "H", "A", "D", "E", "R", "_", "N", "A", "M", "E" >>
kEndif == << "#", "e", "n", "d", "i", "f" >>

\* ShaderLib.injectShaderNameDefine: strips a closing
\* "#ifndef SHADER_NAME / #define SHADER_NAME ... / #endif" block from the
\* source; the name is not used.
injectShaderNameDefine(name, source) ==
  LET ls == SplitNL(source)
      n == Len(ls)
      \* the block with and without the newline that may end it
      k == IF n >= 1 /\ ls[n] = <<>> THEN n - 1 ELSE n
      hit == /\ k >= 3
             /\ ls[k] = kEndif
             /\ StartsWith(ls[k - 1], kShaderNameDefine)
             /\ \/ ls[k - 2] = kShaderNameGuard
                \/ ls[k - 2] = kShaderNameGuard \o << " " >>
                \/ /\ Len(ls[k - 2]) = Len(kShaderNameGuard) + 1
                   /\ IsSpace(ls[k - 2][1])
                   /\ Tail(ls[k - 2]) = kShaderNameGuard
  IN IF hit THEN JoinNL(Slice(ls, 1, k - 3)) ELSE source

Header(precision) == kPrecisionWord \o << " " >> \o precision \o << ";" >>

\* The least index at or after i where s has a character outside the
\* class: "space" for \s, "lower" for [a-z], "type" for [a-z|A-Z].
RECURSIVE SkipClass(_, _, _)
SkipClass(s, i, class) ==
  LET upper(c) == c # NL /\ c # "\t" /\ c # "\r" /\ charCodeAt(c) \in 65..90
      in(c) == IF class = "space" THEN IsSpace(c)
               ELSE IF class = "lower" THEN IsLower(c)
               ELSE IsLower(c) \/ upper(c) \/ c = "|"
  IN IF i <= Len(s) /\ in(s[i]) THEN SkipClass(s, i + 1, class) ELSE i

\* /precision\s+([a-z]+)\s+([a-z|A-Z]+)[\s+]?;/ matched at index i of s: the
\* index after the semicolon, or 0 when there is no match at i.
PrecisionStatementAt(s, i) ==
  LET End(f) == IF f <= Len(s) /\ s[f] = ";" THEN f + 1 ELSE 0
      Type(d, e) ==
        IF e = d THEN 0
        ELSE End(IF e <= Len(s) /\ (IsSpace(s[e]) \/ s[e] = "+")
                 THEN e + 1 ELSE e)
      Gap(c, d) == IF d = c THEN 0 ELSE Type(d, SkipClass(s, d, "type"))
      Qualifier(b, c) ==
        IF c = b THEN 0 ELSE Gap(c, SkipClass(s, c, "space"))
      Space(a, b) ==
        IF b = a THEN 0 ELSE Qualifier(b, SkipClass(s, b, "lower"))
      Word(a) == Space(a, SkipClass(s, a, "space"))
  IN IF IsPrefixAt(kPrecisionWord, s, i) THEN Word(i + Len(kPrecisionWord))
     ELSE 0

\* A mutant of RemovePrecision: no statement is removed.
RemovePrecisionNone(s, i) == Slice(s, i, Len(s))

\* source.replace(regex, '') with the pattern of line 216: every precision
\* statement the pattern matches is removed, with one character of
\* [\s|\t] before it and one of [\s|\t|\r] after it when they are there.
RECURSIVE RemovePrecision(_, _)
RemovePrecision(s, i) ==
  LET pad(j) == j <= Len(s) /\ (IsSpace(s[j]) \/ s[j] = "|")
      \* end is the index after a statement matched at i, or behind the
      \* character of padding at i; 0 when there is none
      At(end) ==
        IF end = 0 THEN << s[i] >> \o RemovePrecision(s, i + 1)
        ELSE RemovePrecision(s, IF pad(end) THEN end + 1 ELSE end)
  IN IF i > Len(s) THEN <<>>
     ELSE At(PrecisionStatementAt(s, IF pad(i) THEN i + 1 ELSE i))

\* ShaderLib.injectShaderPrecision: the header is removed once as a string,
\* any precision statement the pattern matches is removed, and the header
\* is put on a line of its own at the top.
injectShaderPrecision(source, precision) ==
  Header(precision) \o << NL >>
  \o RemovePrecision(ReplaceFirst(source, Header(precision), <<>>), 1)


(***************************************************************************)
(* The directive walker and ShaderLib.compile                              *)
(*                                                                         *)
(* A lib is [store, cache, defines, precision]: the fragment store and the *)
(* compiled-text cache are tables from text to text; defines is the        *)
(* preprocessor's define table.  An operation on a lib returns a record    *)
(* [err, ret, cache, walks]: the error thrown (null when none), the value  *)
(* returned, the cache it leaves and the number of runs of                 *)
(* ShaderLibPreprocessor.process it made; lookups lists, in order, the     *)
(* store paths it passed to ShaderLib.get.                                 *)
(***************************************************************************)

\* The deepest nesting of compile calls the model follows; past it the call
\* stack is taken to be exhausted.
MaxIncludeDepth == 2

Error(type, unexpected, expected, arg, trace) ==
  << [type |-> type, unexpected |-> unexpected, expected |-> expected,
      arg |-> arg, trace |-> trace] >>

Result(err, ret, cache, walks) ==
  [err |-> err, ret |-> ret, cache |-> cache, walks |-> walks,
   lookups |-> <<>>]

\* token.data.match(/(#[a-z]+)\s?/)[0].trim(): the first '#' that lower
\* case letters follow, with those letters; null when there is none.
RECURSIVE LowerRun(_, _)
LowerRun(s, i) ==
  IF i <= Len(s) /\ IsLower(s[i]) THEN << s[i] >> \o LowerRun(s, i + 1)
  ELSE <<>>

RECURSIVE DirectiveFrom(_, _)
DirectiveFrom(data, i) ==
  IF i >= Len(data) THEN null
  ELSE IF data[i] = "#" /\ IsLower(data[i + 1])
    THEN Some(<< "#" >> \o LowerRun(data, i + 1))
  ELSE DirectiveFrom(data, i + 1)

Directive(data) == DirectiveFrom(data, 1)

\* The text after the first occurrence of word and the whitespace that
\* must follow it: match[1] of /word[\s]+(.*)/, null when nothing matches.
RECURSIVE AfterWordFrom(_, _, _)
AfterWordFrom(data, word, i) ==
  LET at == IndexFrom(data, word, i)
      after == at + Len(word)
  IN IF at = 0 THEN null
     ELSE IF after <= Len(data) /\ IsSpace(data[after])
       THEN Some(TrimLeft(Slice(data, after, Len(data))))
     ELSE AfterWordFrom(data, word, at + 1)

AfterWord(data, word) == AfterWordFrom(data, word, 1)

\* A mutant of VisitDefine: every define is given the value 1.
VisitDefineAlways(data) == data \o << " ", "1" >>

\* visit, case '#define': a define without a value is given the value 1.
VisitDefine(data) ==
  LET match == AfterWord(data, kDefineWord) IN
    IF IsSome(match) /\ ~(\E i \in 1..Len(Val(match)) : IsSpace(Val(match)[i]))
    THEN data \o << " ", "1" >>
    ELSE data

\* arg.replace(/^["|<](.*)["|>]/, '$1').trim()
IncludePath(arg) ==
  LET closers == {i \in 2..Len(arg) : arg[i] \in {"\"", "|", ">"}}
      last == CHOOSE i \in closers : \A j \in closers : j <= i
  IN IF arg # <<>> /\ arg[1] \in {"\"", "|", "<"} /\ closers # {}
     THEN Trim(Slice(arg, 2, last - 1) \o Slice(arg, last + 1, Len(arg)))
     ELSE Trim(arg)

\* glsl-tokenizer, as far as the walker tells tokens apart: a block comment
\* runs from "/*" to "*/", a line comment from "//" and a preprocessor token
\* from '#' to the end of the line; the text between them is kept in tokens
\* of other types.  A token is [type, data, line], lines counted from 1;
\* glslTokenize(s, i, line) are the tokens of s from index i, on line `line`,
\* on.
RECURSIVE NextOpening(_, _)
NextOpening(s, i) ==
  IF i > Len(s) THEN i
  ELSE IF \/ s[i] = "#"
          \/ IsPrefixAt(<< "/", "/" >>, s, i)
          \/ IsPrefixAt(<< "/", "*" >>, s, i)
    THEN i
  ELSE NextOpening(s, i + 1)

CountNL(s) == Cardinality({i \in 1..Len(s) : s[i] = NL})

RECURSIVE glslTokenize(_, _, _)
glslTokenize(s, i, line) ==
  LET Emit(type, to) ==
        << [type |-> type, data |-> Slice(s, i, to - 1), line |-> line] >>
        \o glslTokenize(s, to, line + CountNL(Slice(s, i, to - 1)))
      EndOr(at, length) == IF at = 0 THEN Len(s) + 1 ELSE at + length
      Type(opening) ==
        IF opening > i THEN << "other", opening >>
        ELSE IF s[i] = "#"
          THEN << "preprocessor", EndOr(IndexFrom(s, << NL >>, i), 0) >>
        ELSE IF s[i + 1] = "/"
          THEN << "line-comment", EndOr(IndexFrom(s, << NL >>, i), 0) >>
        ELSE << "block-comment",
                EndOr(IndexFrom(s, << "*", "/" >>, i + 2), 2) >>
      Token(t) == Emit(t[1], t[2])
  IN IF i > Len(s) THEN <<>> ELSE Token(Type(NextOpening(s, i)))

\* A mutant of IsComment: no token is taken for a comment.
IsCommentNever(type) == FALSE

\* visit, lines 368-370: the token types the walker drops.
IsComment(type) == type \in {"block-comment", "line-comment"}

RECURSIVE compile(_, _, _, _)
RECURSIVE visit(_, _, _, _, _, _, _)

\* The result r of what ran after the step with result first: the runs of
\* process and the lookups of first are counted ahead of its own.
After(r, first) ==
  [r EXCEPT !.walks = @ + first.walks, !.lookups = first.lookups \o @]

\* A mutant of get: the text compiled for a path includes the path again.
getAgain(path, lib, depth) ==
  compile(Some(path),
          Some(kIncludeWord \o << " ", "<" >> \o path \o << ">" >>),
          lib, depth)

\* ShaderLib.get(path)
get(path, lib, depth) ==
  IF path \in DOMAIN lib.store
  THEN compile(Some(path), Some(lib.store[path]), lib, depth)
  ELSE Result(null, null, lib.cache, 0)

\* A mutant of UnexpectedToken: the closing delimiter is not compared with
\* the opening one.
UnexpectedTokenUnpaired(left, right) ==
  IF left \notin {<< "<" >>, << "\"" >>}
    THEN Some(<< left, << << "<" >>, << "\"" >> >> >>)
  ELSE IF right \notin {<< ">" >>, << "\"" >>}
    THEN Some(<< right, IF left = << "<" >> THEN << << ">" >> >>
                        ELSE << << "\"" >> >> >>)
  ELSE null

\* visit, case '#include', lines 392-408: the checks of the first and the
\* last character of the argument; null, or the token that is not expected
\* with the delimiters expected in its place.
UnexpectedToken(left, right) ==
  IF left \notin {<< "<" >>, << "\"" >>}
    THEN Some(<< left, << << "<" >>, << "\"" >> >> >>)
  ELSE IF right \notin {<< ">" >>, << "\"" >>}
    THEN Some(<< right, IF left = << "<" >> THEN << << ">" >> >>
                        ELSE << << "\"" >> >> >>)
  ELSE IF left = << "<" >> /\ right # << ">" >>
    THEN Some(<< right, << << ">" >> >> >>)
  ELSE IF left = << "\"" >> /\ right # << "\"" >>
    THEN Some(<< right, << << "\"" >> >> >>)
  ELSE null

\* visit, case '#include', for the preprocessor token data on line `line`:
\* [err, out, cache, walks], out being the text spliced for the token.
VisitInclude(data, line, root, lib, includeStack, depth) ==
  LET lt == << "<" >>
      gt == << ">" >>
      \* lines 385-389: the argument of the directive and its ends
      m == AfterWord(data, kIncludeWord)
      arg == Val(m)
      left == Trim(<< arg[1] >>)
      right == Trim(<< arg[Len(Trim(arg))] >>)
      \* lines 392-408: the delimiters are checked
      unexpected == UnexpectedToken(left, right)
      \* lines 386 and 410-412: the path is resolved
      path == IncludePath(arg)
      nextRoot == IF left = lt /\ right = gt THEN << "/" >> ELSE root
      resolvedPath ==
        resolve((IF path = <<>> \/ path[1] # "." THEN << ".", "/" >>
                 ELSE <<>>) \o path, nextRoot)
      \* lines 413-419: the fragment is walked in place of the token
      Splice(shader) ==
        IF shader.err # null THEN shader
        ELSE IF IsSome(shader.ret) /\ Truthy(Val(shader.ret))
          THEN After(visit(glslTokenize(Val(shader.ret) \o << NL >>, 1, 1), 1, <<>>,
                           nextRoot, [lib EXCEPT !.cache = shader.cache],
                           Append(includeStack, << path, line >>), depth),
                     shader)
        ELSE [shader EXCEPT
                !.err = Error("ReferenceError", <<>>, <<>>, arg, includeStack),
                !.ret = null]
  IN IF ~IsSome(m) \/ arg = <<>>
       THEN Result(Error("TypeError", <<>>, <<>>, <<>>, includeStack),
                   null, lib.cache, 0)
     ELSE IF IsSome(unexpected)
       THEN Result(Error("SyntaxError", Val(unexpected)[1],
                         Val(unexpected)[2], arg, includeStack),
                   null, lib.cache, 0)
     ELSE Splice([get(resolvedPath, lib, depth + 1)
                    EXCEPT !.lookups = << resolvedPath >> \o @])

\* visit(source, stack, root) over the tokens of the source from token i
\* on, out being the text of the tokens pushed so far.
visit(tokens, i, out, root, lib, includeStack, depth) ==
  LET token == tokens[i]
      \* line 373: the directive word of a preprocessor token
      directive == Directive(token.data)
      \* the tokens after this one
      Rest(tok) ==
        IF tok.err # null THEN tok
        ELSE After(visit(tokens, i + 1, out \o Val(tok.ret), root,
                         [lib EXCEPT !.cache = tok.cache],
                         includeStack, depth),
                   tok)
  IN IF i > Len(tokens) THEN Result(null, Some(out), lib.cache, 0)
     ELSE Rest(IF IsComment(token.type)
                 THEN Result(null, Some(<<>>), lib.cache, 0)
               ELSE IF token.type # "preprocessor"
                 THEN Result(null, Some(token.data), lib.cache, 0)
               ELSE IF ~IsSome(directive)
                 THEN Result(Error("TypeError", <<>>, <<>>, <<>>, includeStack),
                             null, lib.cache, 0)
               ELSE IF Val(directive) = kDefineWord
                 THEN Result(null, Some(VisitDefine(token.data)), lib.cache, 0)
               ELSE IF Val(directive) = kIncludeWord
                 THEN VisitInclude(token.data, token.line, root, lib,
                                   includeStack, depth)
               ELSE Result(null, Some(token.data), lib.cache, 0))

\* process, lines 356-360: the functions of shaderLib.middleware are called
\* in turn from the i-th on.  A function is [returns, suffix]: it returns
\* the text it was given with the suffix behind it, undefined or null.
\* src is the text handed on, null when it is the value null; coalesce
\* ('defined') takes the first of its arguments that is not undefined.
RECURSIVE reduceMiddleware(_, _, _)
reduceMiddleware(wares, i, src) ==
  IF i > Len(wares) THEN src
  ELSE reduceMiddleware(wares, i + 1,
         IF wares[i].returns = "text"
           THEN Some((IF IsSome(src) THEN Val(src) ELSE kNullKey)
                     \o wares[i].suffix)
         ELSE IF wares[i].returns = "null" THEN null
         ELSE src)

\* ShaderLibPreprocessor.process(name, source)
process(name, source, lib, depth) ==
  LET \* line 361: replace is called on what the middleware left
      Reduced(walked, src) ==
        IF IsSome(src)
        THEN [walked EXCEPT
                !.ret = Some(ReplaceFirst(Val(src), kGlslifyLine, <<>>)),
                !.walks = @ + 1]
        ELSE [walked EXCEPT
                !.err = Error("TypeError", <<>>, <<>>, <<>>, <<>>),
                !.ret = null,
                !.walks = @ + 1]
      Walked(walked) ==
        IF walked.err # null
        THEN [walked EXCEPT !.ret = null, !.walks = @ + 1]
        ELSE Reduced(walked, reduceMiddleware(lib.middleware, 1, walked.ret))
  IN Walked(visit(glslTokenize(<< NL >> \o injectDefines(source, lib.defines)
                               \o << NL >>, 1, 1),
                  1, <<>>,
                  IF name # kAnonymousShaderName THEN dirname(name)
                  ELSE << "/" >>,
                  lib, <<>>, depth))

\* The lines of the compiled text: empty lines dropped, a newline added to
\* every line of one character.
CompiledLines(source) ==
  LET Lines(kept) ==
        JoinNL([i \in 1..Len(kept) |->
                  IF Len(kept[i]) = 1 THEN kept[i] \o << NL >> ELSE kept[i]])
  IN Lines(SelectSeq(SplitNL(source), LAMBDA line : Len(line) > 0))

\* ShaderLib.compile, lines 283-284: a call without a source takes its
\* name for the source, and a call without a name is anonymous.
Overload(name, source) ==
  LET falsy(o) == ~IsSome(o) \/ ~Truthy(Val(o))
      Named(nm, src) ==
        [name |-> IF falsy(nm) THEN kAnonymousShaderName ELSE Val(nm),
         source |-> src,
         falsy |-> falsy(src)]
  IN IF falsy(source) /\ ~falsy(name) THEN Named(null, name)
     ELSE Named(name, source)

\* A mutant of CacheKey: the name is part of the hashed text.
CacheKeyNamed(name, source) == Val(hash(Some(name \o source)))

\* ShaderLib.compile, line 286: the cache key of a source compiled under
\* a name.
CacheKey(name, source) == Val(hash(Some(source)))

\* A mutant of CacheHit: no entry is taken for a hit.
CacheHitNever(entries, key) == FALSE

\* ShaderLib.compile, line 287: the cache holds a text under the key.
CacheHit(entries, key) == key \in DOMAIN entries /\ Truthy(entries[key])

\* ShaderLib.compile(name, source); name and source are optional texts.
compile(name, source, lib, depth) ==
  LET \* lines 283-286
      args == Overload(name, source)
      key == CacheKey(args.name, Val(args.source))
      \* lines 292-297: the processed text is stored and returned
      Stored(processed) ==
        IF processed.err # null THEN processed
        ELSE LET Text(text) ==
                   [processed EXCEPT
                      !.ret = Some(text \o << NL >>),
                      !.cache = DynamicValue_set(@, key, text)]
             IN Text(CompiledLines(
                       injectShaderPrecision(Val(processed.ret),
                                             lib.precision)))
  IN IF args.falsy THEN Result(null, null, lib.cache, 0)
     ELSE IF depth > MaxIncludeDepth
       THEN Result(Error("RangeError", <<>>, <<>>, <<>>, <<>>), null,
                   lib.cache, 0)
     \* lines 287-291
     ELSE IF CacheHit(lib.cache, key)
       THEN Result(null, Some(lib.cache[key]), lib.cache, 0)
     ELSE Stored(process(args.name,
                         injectShaderNameDefine(args.name, Val(args.source)),
                         lib, depth))

\* ShaderLib.preprocess(source): prepr consumes the #define lines it is
\* given (the sources here use no other directive of it and none of the
\* macro names), then the lines of whitespace are dropped.
preprocess(source) ==
  LET ls == SplitNL(source)
      directive(line) == StartsWith(TrimLeft(line), kDefineWord)
      blank(line) == \A i \in 1..Len(line) : IsSpace(line[i])
  IN JoinNL(SelectSeq(ls, LAMBDA line : ~directive(line) /\ ~blank(line)))

(***************************************************************************)
(* The state                                                               *)
(***************************************************************************)

VARIABLES
  \* ShaderLib
  store,                     \* this.store: path -> source
  cache,                     \* this.cache: hash -> compiled text
  preprocessorDefines,       \* this.preprocessor.defines
  \* Shader (the constructor's closure)
  defines,
  injectParentContext,       \* "plain": regl({}); "defines": regl(parentOpts)
  injectContext,             \* null, or the command registered last
  fragmentShaderUncompiled,
  vertexShaderUncompiled,
  fragmentShader,
  vertexShader,
  contextCache,              \* hash of the compiled pair -> command
  shaderCache,               \* hash of an uncompiled source -> compiled text
  \* one call of update
  pc,                        \* where update is
  state,                     \* the frame state update was called with
  reglContext,               \* the upstream context: its defines
  forceCompile,
  tick,                      \* what the call has done so far
  compiledSources,           \* the sources this instance has compiled
  ticks,                     \* the calls of update so far
  \* calls of the ShaderLib API
  call,                      \* the last call and what it returned
  history,                   \* what the calls before it returned
  calls,                     \* the calls so far
  middleware,                \* this.middleware: the functions use was given
  peerCache                  \* this.cache of the ShaderLib of a second Shader

libVars == << store, cache, preprocessorDefines >>
shaderVars ==
  << defines, injectParentContext, injectContext, fragmentShaderUncompiled,
     vertexShaderUncompiled, fragmentShader, vertexShader, contextCache,
     shaderCache >>
updateVars ==
  << pc, state, reglContext, forceCompile, tick, compiledSources, ticks >>
apiVars == << call, history, calls, middleware, peerCache >>
vars == << libVars, shaderVars, updateVars, apiVars >>

shaderLib ==
  [store |-> store, cache |-> cache, defines |-> preprocessorDefines,
   precision |-> kDefaultShaderLibPrecision, middleware |-> middleware]


(***************************************************************************)
(* The frame states update is called with                                  *)
(***************************************************************************)

\* A vertexShader or fragmentShader of the frame state: absent, a string,
\* or a function that returns a text or throws.
NoShader == [kind |-> "undefined", text |-> <<>>, throws |-> FALSE]
StringShader(t) == [kind |-> "string", text |-> t, throws |-> FALSE]
FunctionShader(t) == [kind |-> "function", text |-> t, throws |-> FALSE]
ThrowingShader == [kind |-> "function", text |-> <<>>, throws |-> TRUE]

SourceAB == << "a", "b" >>
SourceBA == << "b", "a" >>
SourceCD == << "c", "d" >>
SourceFG == << "f", "g" >>
\* an include of a fragment the store does not hold
SourceMissing == kIncludeWord \o << " ", "<", "m", ">" >>
\* an include whose closing delimiter is missing
SourceMalformed == kIncludeWord \o << " ", "<", "m" >>
\* an include of a fragment the store holds
SourceInclude == kIncludeWord \o << " ", "<", "k", ">" >>

DefineX == << "X" >>
One == << "1" >>
Two == << "2" >>

VertexShaders ==
  { NoShader, StringShader(SourceAB), StringShader(SourceMissing),
    StringShader(SourceMalformed), FunctionShader(SourceCD), ThrowingShader }
\* two sources of the same characters in another order
VertexShadersAnagram ==
  { NoShader, StringShader(SourceAB), StringShader(SourceBA) }
FragmentShaders == { NoShader, StringShader(SourceFG), ThrowingShader }
StateDefines == { <<>>, << << DefineX, StrVal(Two) >> >> }
ContextDefines == { <<>>, << << DefineX, StrVal(One) >> >> }

\* Shader.defaults().shaderName with the type update compiles it under
ShaderName(type) ==
  kAnonymousShaderName \o << " ", "(" >> \o type \o << ")" >>
kVertex == << "v", "e", "r", "t", "e", "x" >>
kFragment == << "f", "r", "a", "g", "m", "e", "n", "t" >>

(***************************************************************************)
(* Init: a ShaderLib and a Shader as their constructors leave them         *)
(***************************************************************************)

NoCall ==
  [op |-> "none", name |-> <<>>, source |-> <<>>, err |-> null, ret |-> null,
   walks |-> 0, lookups |-> <<>>, key |-> null, before |-> FALSE,
   compiled |-> FALSE, value |-> NullVal, map |-> <<>>, defined |-> <<>>,
   cached |-> null, failed |-> null, previous |-> null, readded |-> FALSE]

NoState ==
  [forceCompile |-> FALSE, defines |-> <<>>,
   vertexShader |-> NoShader, fragmentShader |-> NoShader]

NoTick ==
  [trace |-> <<>>, error |-> null, defineChanged |-> FALSE, follows |-> FALSE,
   ranUnder |-> null, blocks |-> 0, upstream |-> <<>>, unserved |-> FALSE,
   supplied |-> <<>>,
   before |-> [vertexShader |-> null, fragmentShader |-> null,
               vertexShaderUncompiled |-> null,
               fragmentShaderUncompiled |-> null,
               shaderCache |-> EmptyTable, injectContext |-> null]]

Init ==
  /\ store = [path \in { << "k" >> } |-> << "k", "k" >>]
  /\ cache = EmptyTable
  /\ preprocessorDefines = <<>>
  /\ defines = <<>>
  /\ injectParentContext = "plain"
  /\ injectContext = null
  /\ fragmentShaderUncompiled = null
  /\ vertexShaderUncompiled = null
  /\ fragmentShader = null
  /\ vertexShader = null
  /\ contextCache = EmptyTable
  /\ shaderCache = EmptyTable
  /\ pc = "idle"
  /\ state = NoState
  /\ reglContext = <<>>
  /\ forceCompile = FALSE
  /\ tick = NoTick
  /\ compiledSources = {}
  /\ ticks = 0
  /\ call = NoCall
  /\ history = [returned |-> {}, texts |-> {}, first |-> EmptyTable,
                entry |-> EmptyTable, got |-> EmptyTable, readded |-> {},
                failed |-> EmptyTable]
  /\ calls = 0
  /\ middleware = <<>>
  /\ peerCache = EmptyTable

(***************************************************************************)
(* Shader: update, one step at a time                                      *)
(***************************************************************************)

\* A mutant of Throw: the error is caught and the tick goes on under the
\* program it has.
ThrowCaught(err) ==
  /\ pc' = "inject"
  /\ tick' = [tick EXCEPT !.error = err]

\* An error leaves update: nothing catches it, the rest of the call is
\* not run.  When the call had changed the define table, the change has
\* not been served by a compile yet.
Throw(err) ==
  /\ pc' = "thrown"
  /\ tick' = [tick EXCEPT !.error = err,
                          !.unserved = @ \/ tick.defineChanged]

Snapshot ==
  [vertexShader |-> vertexShader, fragmentShader |-> fragmentShader,
   vertexShaderUncompiled |-> vertexShaderUncompiled,
   fragmentShaderUncompiled |-> fragmentShaderUncompiled,
   shaderCache |-> shaderCache, injectContext |-> injectContext]

GeneratorError == Error("GeneratorError", <<>>, <<>>, <<>>, <<>>)

\* getViableShader: the string, what the function returns, or undefined;
\* [err, ret].
getViableShader(shader) ==
  IF shader.kind = "string" THEN [err |-> null, ret |-> Some(shader.text)]
  ELSE IF shader.kind = "function"
    THEN IF shader.throws THEN [err |-> GeneratorError, ret |-> null]
         ELSE [err |-> null, ret |-> Some(shader.text)]
  ELSE [err |-> null, ret |-> null]

isViableShader(shader) == shader.kind \in {"string", "function"}

\* The calls of update the model follows.
MaxTicks == 3

\* update, lines 58-66: the upstream context is read, the defines are
\* merged and handed to the preprocessor.  The call is the first, follows
\* a call that has returned, or repeats the frame state of the call
\* before it.
UpdateDefine(next, contextDefines) ==
  /\ \/ pc = "idle"
     \/ pc = "done" /\ next = state /\ contextDefines = tick.upstream
  /\ ticks < MaxTicks
  /\ ticks' = ticks + 1
  /\ \E inherited \in {IF injectParentContext = "defines"
                        THEN assign(contextDefines, defines)
                        ELSE contextDefines} :
     \E merged \in {assign(defines, assign(inherited, next.defines))} :
     \E defined \in {IF Len(merged) > 0
                      THEN define(preprocessorDefines, merged)
                      ELSE [changed |-> FALSE,
                            table |-> preprocessorDefines]} :
        /\ state' = next
        /\ reglContext' = inherited
        /\ defines' = merged
        /\ preprocessorDefines' = defined.table
        /\ forceCompile' = (next.forceCompile \/ defined.changed)
        /\ tick' = [NoTick EXCEPT
                      !.trace = << "define" >>,
                      !.defineChanged = (defined.table # preprocessorDefines),
                      !.follows = /\ pc = "done"
                                  /\ tick.defineChanged
                                  /\ IsSome(tick.before.injectContext)
                                  /\ ~next.forceCompile,
                      !.upstream = contextDefines,
                      !.unserved = tick.unserved,
                      !.supplied = assign(assign(tick.supplied,
                                                 contextDefines),
                                          next.defines),
                      !.before = Snapshot]
  /\ pc' = "decide"
  /\ UNCHANGED << store, cache, injectParentContext, injectContext,
                  fragmentShaderUncompiled, vertexShaderUncompiled,
                  fragmentShader, vertexShader, contextCache, shaderCache,
                  compiledSources, apiVars >>


\* shouldCompile, checkShader(current, next) once next is resolved: whether
\* it asks for a compile.
checkShader(current, next) ==
  LET memo == DynamicValue_get(shaderCache, PropertyKey(hash(next))) IN
    IF IsSome(memo) /\ Truthy(Val(memo)) THEN FALSE
    ELSE IF ~IsSome(current) /\ IsSome(next) /\ Truthy(Val(next)) THEN TRUE
    ELSE IsSome(next) /\ current # next

\* shouldCompile(reglContext, currentState): [err, ret]; the vertex source
\* is resolved and checked first, then the fragment source.
shouldCompile ==
  LET vs == getViableShader(state.vertexShader)
      fs == getViableShader(state.fragmentShader)
  IN IF vs.err # null THEN [err |-> vs.err, ret |-> FALSE]
     ELSE IF fs.err # null THEN [err |-> fs.err, ret |-> FALSE]
     ELSE [err |-> null,
           ret |-> \/ ~IsSome(injectContext)
                   \/ checkShader(vertexShaderUncompiled, vs.ret)
                   \/ checkShader(fragmentShaderUncompiled, fs.ret)]

\* update, line 68: forceCompile || shouldCompile(reglContext, state)
UpdateDecide ==
  /\ pc = "decide"
  /\ IF forceCompile
     THEN /\ pc' = "compile"
          /\ tick' = [tick EXCEPT !.trace = Append(@, "compile")]
     ELSE \E should \in {shouldCompile} :
       IF should.err # null THEN Throw(should.err)
       ELSE IF should.ret
         THEN /\ pc' = "compile"
              /\ tick' = [tick EXCEPT !.trace = Append(@, "compile")]
       ELSE /\ pc' = "inject"
            /\ tick' = tick
  /\ UNCHANGED << libVars, shaderVars, state, reglContext, forceCompile,
                  compiledSources, ticks, apiVars >>

\* compile, compileShader(type, shader): [err, ret, cache]; ret is null or
\* <<[compiled, uncompiled]>>.
compileShader(type, shader, lib) ==
  LET Compiled(uncompiled, compiled) ==
        IF compiled.err # null
        THEN [err |-> compiled.err, ret |-> null, cache |-> compiled.cache]
        ELSE [err |-> null,
              ret |-> Some([compiled |-> preprocess(Val(compiled.ret)),
                            uncompiled |-> Val(uncompiled)]),
              cache |-> compiled.cache]
      viable == getViableShader(shader)
  IN IF ~isViableShader(shader)
       THEN [err |-> null, ret |-> null, cache |-> lib.cache]
     ELSE IF viable.err # null
       THEN [err |-> viable.err, ret |-> null, cache |-> lib.cache]
     ELSE Compiled(viable.ret,
                   compile(Some(ShaderName(type)), viable.ret, lib, 0))

\* ctx.regl(opts): the command for a vertex and a fragment text
Command(vert, frag) == [vert |-> vert, frag |-> frag]

\* The key of the compiled pair in contextCache.
ContextKey(vert, frag) ==
  (IF IsSome(vert) THEN Val(hash(vert)) ELSE <<>>)
  \o (IF IsSome(frag) THEN Val(hash(frag)) ELSE <<>>)

\* compile, compileVertexShader() and compileFragmentShader(): the slot
\* after a result of compileShader, as
\* [shader, uncompiled, shaderCache, compiledSources].
CompileSlot(result, slot) ==
  IF IsSome(result.ret)
  THEN [shader |-> Some(Val(result.ret).compiled),
        uncompiled |-> Some(Val(result.ret).uncompiled),
        shaderCache |->
          DynamicValue_set(slot.shaderCache,
                           PropertyKey(hash(Some(Val(result.ret).uncompiled))),
                           Val(result.ret).compiled),
        compiledSources |->
          slot.compiledSources \cup {Val(result.ret).uncompiled}]
  ELSE slot

\* compile(reglContext, currentState), lines 80-140: the vertex slot, the
\* fragment slot, the parent context, then the command of a pair that
\* contextCache does not hold yet.  An error leaves what was done before
\* it.
UpdateCompile ==
  /\ pc = "compile"
  /\ \E vresult \in {compileShader(kVertex, state.vertexShader, shaderLib)} :
     \E vslot \in {CompileSlot(vresult,
                     [shader |-> vertexShader,
                      uncompiled |-> vertexShaderUncompiled,
                      shaderCache |-> shaderCache,
                      compiledSources |-> compiledSources])} :
     \E fresult \in {IF vresult.err # null THEN vresult
                     ELSE compileShader(kFragment, state.fragmentShader,
                            [shaderLib EXCEPT !.cache = vresult.cache])} :
     \E fslot \in {CompileSlot(fresult,
                     [shader |-> fragmentShader,
                      uncompiled |-> fragmentShaderUncompiled,
                      shaderCache |-> vslot.shaderCache,
                      compiledSources |-> vslot.compiledSources])} :
     LET key == ContextKey(vslot.shader, fslot.shader)
         fresh == /\ IsSome(vslot.shader) \/ IsSome(fslot.shader)
                  /\ key \notin DOMAIN contextCache
     IN IF vresult.err # null
        THEN /\ Throw(vresult.err)
             /\ cache' = vresult.cache
             /\ UNCHANGED << shaderVars, compiledSources >>
        ELSE IF fresult.err # null
        THEN /\ Throw(fresult.err)
             /\ cache' = fresult.cache
             /\ vertexShader' = vslot.shader
             /\ vertexShaderUncompiled' = vslot.uncompiled
             /\ shaderCache' = vslot.shaderCache
             /\ compiledSources' = vslot.compiledSources
             /\ UNCHANGED << defines, injectParentContext, injectContext,
                             fragmentShaderUncompiled, fragmentShader,
                             contextCache >>
        ELSE /\ pc' = "inject"
             /\ tick' = [tick EXCEPT !.unserved = FALSE]
             /\ cache' = fresult.cache
             /\ vertexShader' = vslot.shader
             /\ vertexShaderUncompiled' = vslot.uncompiled
             /\ fragmentShader' = fslot.shader
             /\ fragmentShaderUncompiled' = fslot.uncompiled
             /\ shaderCache' = fslot.shaderCache
             /\ compiledSources' = fslot.compiledSources
             /\ injectParentContext' = "defines"
             /\ injectContext' =
                  IF fresh THEN Some(Command(vslot.shader, fslot.shader))
                  ELSE injectContext
             /\ contextCache' =
                  IF fresh
                  THEN DynamicValue_set(contextCache, key,
                                        Command(vslot.shader, fslot.shader))
                  ELSE contextCache
             /\ UNCHANGED defines
  /\ UNCHANGED << store, preprocessorDefines, state, reglContext,
                  forceCompile, ticks, apiVars >>

\* A mutant of UpdateInject: the continuation is called only under a
\* registered command.
UpdateInjectUnderCommand ==
  /\ pc = "inject"
  /\ tick' = IF IsSome(injectContext)
             THEN [tick EXCEPT !.trace = Append(@, "block"),
                               !.blocks = @ + 1,
                               !.ranUnder = injectContext]
             ELSE tick
  /\ pc' = "done"
  /\ UNCHANGED << libVars, shaderVars, state, reglContext, forceCompile,
                  compiledSources, ticks, apiVars >>

\* update, lines 72-76: the continuation is called, under the registered
\* command when there is one.
UpdateInject ==
  /\ pc = "inject"
  /\ tick' = [tick EXCEPT !.trace = Append(@, "block"),
                          !.blocks = @ + 1,
                          !.ranUnder = injectContext]
  /\ pc' = "done"
  /\ UNCHANGED << libVars, shaderVars, state, reglContext, forceCompile,
                  compiledSources, ticks, apiVars >>

\* update has returned or thrown: its arguments and locals are gone.
UpdateReturn ==
  /\ pc \in {"done", "thrown"}
  /\ pc' = "idle"
  /\ state' = NoState
  /\ reglContext' = <<>>
  /\ forceCompile' = FALSE
  /\ tick' = [NoTick EXCEPT !.unserved = tick.unserved,
                            !.supplied = tick.supplied]
  /\ UNCHANGED << libVars, shaderVars, compiledSources, ticks, apiVars >>

(***************************************************************************)
(* Fragments and sources of the directive walker                           *)
(***************************************************************************)

\* The directive of an include with argument arg, and the two delimited
\* forms of an argument.
Include(arg) == kIncludeWord \o << " " >> \o arg
Angle(path) == << "<" >> \o path \o << ">" >>
Quoted(path) == << "\"" >> \o path \o << "\"" >>

\* The paths of the fragments: a, b, p, d/p, d/f, d/g, h, w, z, a.g/q, u, v,
\* and m, which the store does not hold.
Path ==
  [a |-> << "a" >>, b |-> << "b" >>, p |-> << "p" >>,
   dp |-> << "d", "/", "p" >>, df |-> << "d", "/", "f" >>,
   dg |-> << "d", "/", "g" >>, h |-> << "h" >>, w |-> << "w" >>,
   z |-> << "z" >>, q |-> << "a", ".", "g", "/", "q" >>, u |-> << "u" >>,
   v |-> << "v" >>, m |-> << "m" >>,
   k |-> << "k" >>, c |-> << "c" >>, e |-> << "e" >>,
   ab |-> << "a", "/", "b" >>]

\* The texts the fragments and the sources are made of.
Text ==
  [a |-> << "x", "a" >>, b |-> << "x", "b" >>, f |-> << "x", "f" >>,
   g |-> << "x", "g" >>, h |-> << "x", "h" >>, p |-> << "p", "p" >>,
   dp |-> << "d", "p" >>, q |-> << "q", "q" >>, u |-> << "x", "y" >>,
   v |-> << "y", "x" >>,
   foo |-> kDefineWord \o << " ", "F", "O", "O" >>,
   high |-> kPrecisionWord
            \o << " ", "h", "i", "g", "h", "p", " ",
                  "f", "l", "o", "a", "t", ";" >>,
   sampler |-> kPrecisionWord
               \o << " ", "l", "o", "w", "p", " ",
                     "s", "a", "m", "p", "l", "e", "r", "2", "D", ";" >>,
   k |-> << "k", "k" >>,
   \* an include of k followed by an include that cannot be resolved, and
   \* a text without a directive whose character codes add up to the same
   includeKM |-> Include(Angle(<< "k" >>)) \o << NL >>
                 \o Include(Angle(<< "m" >>)),
   sameSum |-> [i \in 1..17 |-> "z"] \o << NL >>]

\* this.store after the calls of add that register the fragments: a defines
\* FOO, b includes a, d/f and d/g include "./p" and "p", h carries a
\* precision statement, w includes a fragment the store does not hold and z
\* includes w, a.g/q lies in a directory whose name has an extension, and u
\* and v are made of the same characters.
IncludeStore ==
  (Path.a :> (Text.foo \o << NL >> \o Text.a))
  @@ (Path.b :> (Include(Angle(Path.a)) \o << NL >> \o Text.b))
  @@ (Path.p :> Text.p)
  @@ (Path.dp :> Text.dp)
  @@ (Path.df :> (Include(Quoted(<< ".", "/" >> \o Path.p))
                  \o << NL >> \o Text.f))
  @@ (Path.dg :> (Include(Quoted(Path.p)) \o << NL >> \o Text.g))
  @@ (Path.h :> (Text.high \o << NL >> \o Text.h))
  @@ (Path.w :> Include(Angle(Path.m)))
  @@ (Path.z :> Include(Angle(Path.w)))
  @@ (Path.q :> Text.q)
  @@ (Path.u :> Text.u)
  @@ (Path.v :> Text.v)

\* The sources compiled over the store
Source ==
  [\* includes of fragments of the store
   includeB |-> Include(Angle(Path.b)),
   includeDF |-> Include(Angle(Path.df)),
   includeDG |-> Include(Quoted(Path.dg)),
   includeDotP |-> Include(Quoted(<< ".", "/" >> \o Path.p)),
   includeBareP |-> Include(Quoted(Path.p)),
   includeExt |-> Include(Angle(Path.p \o << ".", "g" >>)),
   includeDirExt |-> Include(Angle(Path.q \o << ".", "g" >>)),
   includeUV |-> Include(Angle(Path.u)) \o << NL >> \o Include(Angle(Path.v)),
   includeH |-> Include(Angle(Path.h)) \o << NL, "x", "t" >>,
   \* an include that cannot be resolved, at depth 0, 1 and 2
   includeM |-> Include(Angle(Path.m)),
   includeW |-> Include(Angle(Path.w)),
   includeZ |-> Include(Angle(Path.z)),
   \* an include whose delimiters are wrong, or that has no argument
   angleQuote |-> Include(<< "<", "a", "\"" >>),
   quoteAngle |-> Include(<< "\"", "a", ">" >>),
   noOpening |-> Include(<< "a", ">" >>),
   noClosing |-> Include(<< "<", "a" >>),
   noArgument |-> kIncludeWord,
   loneQuote |-> Include(<< "\"" >>),
   \* an include inside a comment
   lineComment |-> << "/", "/", " " >> \o Include(Angle(Path.m))
                   \o << NL, "x", "c" >>,
   blockComment |-> << "x", "d", "/", "*", " " >> \o Include(Angle(Path.p))
                    \o << " ", "*", "/", "x", "e" >>,
   \* a define without a value, with one, and with whitespace for one
   define |-> Text.foo,
   defineValue |-> Text.foo \o << " ", "2" >>,
   defineSpace |-> Text.foo \o << " " >>,
   \* a precision statement
   precision |-> Text.high \o << NL, "x", "s" >>,
   precisionSampler |-> Text.sampler \o << NL, "x", "u" >>,
   \* a line of one character
   shortLine |-> << "x", NL, "y", "z" >>]

IncludeSources == { Source[k] : k \in DOMAIN Source }

\* The names the sources are compiled under: one without a directory and
\* one in the directory d.
IncludeNames == { << "n" >>, << "d", "/", "t" >> }

(***************************************************************************)
(* Calls of the ShaderLib API                                              *)
(***************************************************************************)

LibNames == { << "n" >>, << "p" >> }
LibSources == { <<>>, SourceAB, SourceBA, SourceInclude, SourceMissing }
LibValues == { StrVal(One), StrVal(Two), BoolVal(TRUE), NullVal }

\* The calls of the ShaderLib API the model follows.
MaxCalls == 3

\* shaderLib.compile(name, source), called from outside a Shader
LibCompile(name, source) ==
  /\ pc = "idle"
  /\ calls < MaxCalls
  /\ calls' = calls + 1
  /\ \E r \in {compile(Some(name), Some(source), shaderLib, 0)} :
     \E args \in {Overload(Some(name), Some(source))} :
     LET key == IF args.falsy THEN null
                ELSE Some(CacheKey(args.name, Val(args.source)))
         id == << name, source >>
         ok == r.err = null /\ IsSome(r.ret)
     IN /\ cache' = r.cache
        /\ call' = [op |-> "compile", name |-> name, source |-> source,
                    err |-> r.err, ret |-> r.ret, walks |-> r.walks,
                    lookups |-> r.lookups,
                    key |-> key, before |-> source \in history.returned,
                    cached |-> IF IsSome(key) /\ Val(key) \in DOMAIN cache
                               THEN Some(cache[Val(key)]) ELSE null,
                    failed |-> IF id \in DOMAIN history.failed
                               THEN history.failed[id] ELSE null,
                    compiled |-> /\ ~args.falsy
                                 /\ Val(args.source) \in history.texts]
        /\ history' =
             [history EXCEPT
                !.returned = IF ok THEN @ \cup {source} ELSE @,
                !.texts = IF ok THEN @ \cup {Val(args.source)} ELSE @,
                !.first = IF ok /\ id \notin DOMAIN @
                          THEN DynamicValue_set(@, id, Val(r.ret)) ELSE @,
                !.entry = IF ok THEN DynamicValue_set(@, id, Val(key)) ELSE @,
                !.failed = IF r.err # null
                           THEN DynamicValue_set(@, id, r.err) ELSE @]
  /\ UNCHANGED << store, preprocessorDefines, shaderVars, updateVars,
                  middleware, peerCache >>

\* shaderLib.define(key, value): the define table changes, so what the
\* calls before it returned is no longer compared with.
LibDefine(key, value) ==
  /\ pc = "idle"
  /\ calls < MaxCalls
  /\ calls' = calls + 1
  /\ \E d \in {defineOne(preprocessorDefines, key, value)} :
       /\ preprocessorDefines' = d.table
       /\ call' = [NoCall EXCEPT !.op = "define", !.name = key,
                                 !.before = d.changed, !.value = value,
                                 !.defined = preprocessorDefines]
       /\ history' = IF d.changed
                     THEN [history EXCEPT !.first = EmptyTable,
                                          !.got = EmptyTable,
                                          !.readded = {}]
                     ELSE history
  /\ UNCHANGED << store, cache, shaderVars, updateVars, middleware,
                  peerCache >>

\* shaderLib.define(map), with an object for the key
LibDefineMap(map) ==
  /\ pc = "idle"
  /\ calls < MaxCalls
  /\ calls' = calls + 1
  /\ \E d \in {define(preprocessorDefines, map)} :
       /\ preprocessorDefines' = d.table
       /\ call' = [NoCall EXCEPT !.op = "defineMap", !.before = d.changed,
                                 !.map = map,
                                 !.defined = preprocessorDefines]
       /\ history' = IF d.changed
                     THEN [history EXCEPT !.first = EmptyTable,
                                          !.got = EmptyTable,
                                          !.readded = {}]
                     ELSE history
  /\ UNCHANGED << store, cache, shaderVars, updateVars, middleware,
                  peerCache >>

\* The calls of the ShaderLib API the model follows when add extends the
\* store.
MaxStoreCalls == 3

\* shaderLib.add(name, source): a change of the store ends what the calls
\* before it are compared with; a second add of a path with the source it
\* has is remembered until get is called for the path.
LibAdd(name, source) ==
  /\ pc = "idle"
  /\ calls < MaxStoreCalls
  /\ calls' = calls + 1
  /\ \E next \in {add(store, name, source)} :
       /\ store' = next
       /\ call' = [NoCall EXCEPT
                     !.op = "add",
                     !.name = IF name.type = "string" THEN name.s ELSE <<>>,
                     !.value = source,
                     !.before = (next = store)]
       /\ history' =
            IF next # store
            THEN [history EXCEPT !.first = EmptyTable, !.got = EmptyTable,
                                 !.readded = {}, !.failed = EmptyTable]
            ELSE IF name.type = "string" /\ source.type = "string"
              THEN [history EXCEPT
                      !.readded = @ \cup {CollapseSlashes(name.s)}]
            ELSE history
  /\ UNCHANGED << cache, preprocessorDefines, shaderVars, updateVars,
                  middleware, peerCache >>

\* shaderLib.get(path); path is a raw value
LibGet(path) ==
  /\ pc = "idle"
  /\ calls < MaxStoreCalls
  /\ calls' = calls + 1
  /\ \E r \in {IF path.type = "string" THEN get(path.s, shaderLib, 0)
                ELSE Result(null, null, cache, 0)} :
       /\ cache' = r.cache
       /\ call' = [NoCall EXCEPT
                     !.op = "get",
                     !.name = path.s,
                     !.source = IF /\ path.type = "string"
                                   /\ path.s \in DOMAIN store
                                THEN store[path.s] ELSE <<>>,
                     !.value = path,
                     !.err = r.err,
                     !.ret = r.ret,
                     !.walks = r.walks,
                     !.lookups = r.lookups,
                     !.before = /\ path.type = "string"
                                /\ path.s \in DOMAIN store,
                     !.previous = IF path.s \in DOMAIN history.got
                                  THEN Some(history.got[path.s]) ELSE null,
                     !.readded = path.s \in history.readded]
       /\ history' =
            [history EXCEPT
               !.got = IF r.err = null /\ IsSome(r.ret)
                       THEN DynamicValue_set(@, path.s, Val(r.ret)) ELSE @,
               !.readded = @ \ {path.s}]
  /\ UNCHANGED << store, preprocessorDefines, shaderVars, updateVars,
                  middleware, peerCache >>

\* shaderLib.preprocessor.undefine(key)
LibUndefine(key) ==
  /\ pc = "idle"
  /\ calls < MaxStoreCalls
  /\ calls' = calls + 1
  /\ preprocessorDefines' =
       SelectSeq(preprocessorDefines, LAMBDA kv : kv[1] # key)
  /\ call' = [NoCall EXCEPT !.op = "undefine", !.name = key,
                            !.before = ObjHas(preprocessorDefines, key)]
  /\ history' = IF ObjHas(preprocessorDefines, key)
                THEN [history EXCEPT !.first = EmptyTable,
                                     !.got = EmptyTable,
                                     !.readded = {}]
                ELSE history
  /\ UNCHANGED << store, cache, shaderVars, updateVars, middleware,
                  peerCache >>

\* shaderLib.use(middleware), lines 300-305: ware is [function, returns,
\* suffix]; what is not a function is not taken.
LibUse(ware) ==
  /\ pc = "idle"
  /\ calls < MaxStoreCalls
  /\ calls' = calls + 1
  /\ middleware' = IF ware.function
                   THEN Append(middleware,
                               [returns |-> ware.returns,
                                suffix |-> ware.suffix])
                   ELSE middleware
  /\ call' = [NoCall EXCEPT !.op = "use", !.before = ware.function]
  /\ history' = IF ware.function
                THEN [history EXCEPT !.first = EmptyTable,
                                     !.got = EmptyTable,
                                     !.readded = {}]
                ELSE history
  /\ UNCHANGED << store, cache, preprocessorDefines, shaderVars,
                  updateVars, peerCache >>

\* A second Shader compiles a source: its constructor has built a
\* ShaderLib of its own (line 43), with the store, the define table and
\* the middleware a constructor leaves and a cache no other instance
\* reads or writes.
PeerCompile(name, source) ==
  /\ pc = "idle"
  /\ calls < MaxStoreCalls
  /\ calls' = calls + 1
  /\ \E r \in {compile(Some(name), Some(source),
                        [store |-> [path \in { << "k" >> } |-> << "k", "k" >>],
                         cache |-> peerCache,
                         defines |-> <<>>,
                         precision |-> kDefaultShaderLibPrecision,
                         middleware |-> <<>>],
                        0)} :
       /\ peerCache' = r.cache
       /\ call' = [NoCall EXCEPT
                     !.op = "peerCompile",
                     !.name = name,
                     !.source = source,
                     !.err = r.err,
                     !.ret = r.ret,
                     !.walks = r.walks,
                     !.key = Some(CacheKey(name, source)),
                     !.compiled = source \in history.texts,
                     !.cached = IF CacheKey(name, source) \in DOMAIN cache
                                THEN Some(cache[CacheKey(name, source)])
                                ELSE null]
  /\ UNCHANGED << libVars, shaderVars, updateVars, history, middleware >>

(***************************************************************************)
(* Specifications                                                          *)
(***************************************************************************)

FrameStates(vertexShaders) ==
  [forceCompile : BOOLEAN, defines : StateDefines,
   vertexShader : vertexShaders, fragmentShader : FragmentShaders]

\* A Shader called once per frame, with sources no two of which have the
\* same hash.
NextDistinct ==
  \/ \E next \in FrameStates(VertexShaders), c \in ContextDefines :
       UpdateDefine(next, c)
  \/ UpdateDecide
  \/ UpdateCompile
  \/ UpdateInject
  \/ UpdateReturn

SpecDistinct == Init /\ [][NextDistinct]_vars

\* The same, with two sources made of the same characters.
NextAnagram ==
  \/ \E next \in FrameStates(VertexShadersAnagram), c \in ContextDefines :
       UpdateDefine(next, c)
  \/ UpdateDecide
  \/ UpdateCompile
  \/ UpdateInject
  \/ UpdateReturn

SpecAnagram == Init /\ [][NextAnagram]_vars

\* A ShaderLib called from outside.
LibNext ==
  \/ \E name \in LibNames, source \in LibSources : LibCompile(name, source)
  \/ \E value \in LibValues : LibDefine(DefineX, value)

LibSpec == Init /\ [][LibNext]_vars

\* A ShaderLib constructed with the defines { X: '1' }: the constructor
\* passes them to preprocessor.define (line 195) before any call.
InitDefines ==
  /\ store = [path \in { << "k" >> } |-> << "k", "k" >>]
  /\ cache = EmptyTable
  /\ preprocessorDefines = << << DefineX, One >> >>
  /\ defines = << << DefineX, One >> >>
  /\ injectParentContext = "plain"
  /\ injectContext = null
  /\ fragmentShaderUncompiled = null
  /\ vertexShaderUncompiled = null
  /\ fragmentShader = null
  /\ vertexShader = null
  /\ contextCache = EmptyTable
  /\ shaderCache = EmptyTable
  /\ pc = "idle"
  /\ state = NoState
  /\ reglContext = <<>>
  /\ forceCompile = FALSE
  /\ tick = NoTick
  /\ compiledSources = {}
  /\ ticks = 0
  /\ call = NoCall
  /\ history = [returned |-> {}, texts |-> {}, first |-> EmptyTable,
                entry |-> EmptyTable, got |-> EmptyTable, readded |-> {},
                failed |-> EmptyTable]
  /\ calls = 0
  /\ middleware = <<>>
  /\ peerCache = EmptyTable

RedefineSpec == InitDefines /\ [][LibNext]_vars

\* The define table written from outside, one key at a time and with maps.
DefineY == << "Y" >>
Zero == << "0" >>
DefineNext ==
  \/ \E key \in { DefineX, DefineY },
        value \in { StrVal(One), StrVal(Two), StrVal(Zero), BoolVal(TRUE),
                    BoolVal(FALSE), NullVal } :
       LibDefine(key, value)
  \/ \E x \in { StrVal(One), BoolVal(TRUE), NullVal },
        y \in { StrVal(Two), BoolVal(FALSE), NullVal } :
       LibDefineMap(<< << DefineX, x >>, << DefineY, y >> >>)
  \/ \E map \in { <<>>, << << DefineY, StrVal(One) >> >> } :
       LibDefineMap(map)

DefineSpec == Init /\ [][DefineNext]_vars

\* The calls of compile the model follows over the store of fragments.
MaxIncludeCalls == 2

\* A ShaderLib whose store holds the fragments, compiling sources that
\* include them.
InitInclude ==
  /\ store = IncludeStore
  /\ cache = EmptyTable
  /\ preprocessorDefines = <<>>
  /\ defines = <<>>
  /\ injectParentContext = "plain"
  /\ injectContext = null
  /\ fragmentShaderUncompiled = null
  /\ vertexShaderUncompiled = null
  /\ fragmentShader = null
  /\ vertexShader = null
  /\ contextCache = EmptyTable
  /\ shaderCache = EmptyTable
  /\ pc = "idle"
  /\ state = NoState
  /\ reglContext = <<>>
  /\ forceCompile = FALSE
  /\ tick = NoTick
  /\ compiledSources = {}
  /\ ticks = 0
  /\ call = NoCall
  /\ history = [returned |-> {}, texts |-> {}, first |-> EmptyTable,
                entry |-> EmptyTable, got |-> EmptyTable, readded |-> {},
                failed |-> EmptyTable]
  /\ calls = 0
  /\ middleware = <<>>
  /\ peerCache = EmptyTable

IncludeNext ==
  \E name \in IncludeNames, source \in IncludeSources :
    /\ calls < MaxIncludeCalls
    /\ LibCompile(name, source)

IncludeSpec == InitInclude /\ [][IncludeNext]_vars

\* A ShaderLib whose store, define table and middleware are written from
\* outside between the calls of get and compile, beside a second Shader.
StoreNext ==
  \/ \E args \in { << StrVal(Path.k), StrVal(Text.k) >>,
                    << StrVal(Path.k), StrVal(Text.sameSum) >>,
                    << StrVal(Path.e), StrVal(<<>>) >>,
                    << StrVal(Path.c), StrVal(Include(Angle(Path.c))) >>,
                    << StrVal(Path.b), StrVal(Include(Angle(Path.k))) >>,
                    << [type |-> "object",
                        s |-> << << << "a", "/" >>,
                                    [type |-> "object",
                                     s |-> << << Path.b, StrVal(SourceAB) >>,
                                              << Path.c, BoolVal(TRUE) >>,
                                              << Path.e, NullVal >> >>] >> >>],
                       NullVal >> } :
       LibAdd(args[1], args[2])
  \/ \E path \in { StrVal(Path.k), StrVal(Path.e), StrVal(Path.c),
                    StrVal(Path.b), StrVal(Path.ab), StrVal(Path.m),
                    BoolVal(TRUE) } :
       LibGet(path)
  \/ \E source \in { SourceAB, Text.includeKM, Include(Angle(Path.b)),
                      Include(Angle(Path.k)) } :
       /\ calls < MaxStoreCalls
       /\ LibCompile(<< "n" >>, source)
  \/ /\ calls < MaxStoreCalls
     /\ LibDefine(DefineX, StrVal(One))
  \/ LibUndefine(DefineX)
  \/ \E ware \in { [function |-> TRUE, returns |-> "text", suffix |-> << "A" >>],
                    [function |-> TRUE, returns |-> "text", suffix |-> << "B" >>],
                    [function |-> TRUE, returns |-> "undefined", suffix |-> <<>>],
                    [function |-> TRUE, returns |-> "null", suffix |-> <<>>],
                    [function |-> FALSE, returns |-> "undefined",
                     suffix |-> <<>>] } :
       LibUse(ware)
  \/ PeerCompile(<< "n" >>, SourceAB)

StoreSpec == Init /\ [][StoreNext]_vars

(***************************************************************************)
(* Properties                                                              *)
(***************************************************************************)

\* The call of update in progress has invoked compile.
InvokedCompile == \E i \in DOMAIN tick.trace : tick.trace[i] = "compile"

\* The source text a slot of the frame state resolves to: null when the
\* slot is empty or its generator throws.
Resolved(shader) ==
  IF shader.kind \in {"string", "function"} /\ ~shader.throws
  THEN Some(shader.text) ELSE null

\* The text update compiles a source to, whatever the caches hold.
CompiledFrom(type, text) ==
  preprocess(Val(compile(Some(ShaderName(type)), Some(text),
                         [shaderLib EXCEPT !.cache = EmptyTable], 0).ret))

\* C1: on an instance that has a program, a tick whose merged defines
\* change a value of the define table invokes compile, whatever the
\* sources are; the tick after it, with the same frame state and the same
\* upstream defines, does not invoke compile.
C1_DefineChangeCompilesOnce ==
  /\ (IsSome(tick.before.injectContext) /\ tick.defineChanged
        /\ pc \notin {"idle", "decide"})
       => InvokedCompile
  /\ (tick.follows /\ pc \notin {"idle", "decide"}) => ~InvokedCompile

\* The second tick of C1 has returned, on sources that did not change.
C1_Witness ==
  /\ tick.follows
  /\ pc = "done"
  /\ ~InvokedCompile
  /\ ~tick.defineChanged
  /\ Resolved(state.vertexShader) = tick.before.vertexShaderUncompiled
  /\ IsSome(tick.before.vertexShaderUncompiled)

\* C2: when a tick has returned without an error, the command the
\* continuation ran under holds, for every slot the frame state gave a
\* source for, the text compiled from that source.
C2_RunsCurrentProgram ==
  pc = "done" =>
    /\ IsSome(Resolved(state.vertexShader)) =>
         /\ IsSome(tick.ranUnder)
         /\ Val(tick.ranUnder).vert =
              Some(CompiledFrom(kVertex, Val(Resolved(state.vertexShader))))
    /\ IsSome(Resolved(state.fragmentShader)) =>
         /\ IsSome(tick.ranUnder)
         /\ Val(tick.ranUnder).frag =
              Some(CompiledFrom(kFragment,
                                Val(Resolved(state.fragmentShader))))

C4_SameText ==
  (call.op = "compile" /\ call.err = null /\ IsSome(call.ret)) =>
    Val(call.ret) = history.first[<< call.name, call.source >>]

\* C5, as claimed: compiles of one source under two names have two cache
\* entries.
C5_DistinctEntries ==
  \A a, b \in DOMAIN history.entry :
    (a[2] = b[2] /\ a[1] # b[1]) => history.entry[a] # history.entry[b]

\* C5, amended: the cache entry of a compile is keyed by the hash of the
\* text compiled alone, which is the source, or the name when the source
\* is empty; compiles of one source that is not empty share one entry
\* whatever their names are.
C5_EntryKeyedBySource ==
  /\ \A a \in DOMAIN history.entry :
       /\ history.entry[a] =
            Val(hash(Some(IF a[2] # <<>> THEN a[2] ELSE a[1])))
       /\ history.entry[a] \in DOMAIN cache
  /\ \A a, b \in DOMAIN history.entry :
       (a[2] = b[2] /\ a[2] # <<>>) => history.entry[a] = history.entry[b]

\* One source that is not empty has been compiled under two names.
C5_Witness ==
  \E a, b \in DOMAIN history.entry :
    a[2] = b[2] /\ a[2] # <<>> /\ a[1] # b[1]

\* C6: a tick that has not invoked compile resolved, for each slot, no
\* source, the source the slot's program was compiled from, or a source
\* the instance has compiled.
C6_NewSourceCompiles ==
  (pc \in {"inject", "done"} /\ ~InvokedCompile) =>
    /\ \/ ~IsSome(Resolved(state.vertexShader))
       \/ Resolved(state.vertexShader) = vertexShaderUncompiled
       \/ Val(Resolved(state.vertexShader)) \in compiledSources
    /\ \/ ~IsSome(Resolved(state.fragmentShader))
       \/ Resolved(state.fragmentShader) = fragmentShaderUncompiled
       \/ Val(Resolved(state.fragmentShader)) \in compiledSources

\* C7: a tick without the force flag, whose defines change no value of
\* the define table, and whose slots have no source or the source of
\* their program, does not invoke compile.
C7_NothingChangedNoCompile ==
  ( /\ pc # "idle"
    /\ ~state.forceCompile
    /\ ~tick.defineChanged
    /\ ~state.vertexShader.throws
    /\ ~state.fragmentShader.throws
    /\ \/ ~IsSome(Resolved(state.vertexShader))
       \/ Resolved(state.vertexShader) = tick.before.vertexShaderUncompiled
    /\ \/ ~IsSome(Resolved(state.fragmentShader))
       \/ Resolved(state.fragmentShader)
            = tick.before.fragmentShaderUncompiled )
  => ~InvokedCompile

\* C8: a tick that has returned called the continuation once, as the last
\* thing it did, after the define merge and any compile; a tick that has
\* not returned has not called it.
C8_ContinuationOnce ==
  /\ pc = "done" =>
       /\ tick.blocks = 1
       /\ tick.trace[1] = "define"
       /\ tick.trace[Len(tick.trace)] = "block"
       /\ \A i \in 1..(Len(tick.trace) - 1) : tick.trace[i] # "block"
  /\ pc \in {"decide", "compile", "inject"} =>
       /\ tick.blocks = 0
       /\ \A i \in DOMAIN tick.trace : tick.trace[i] # "block"

\* A tick that compiled and registered no program has returned.
C8_Witness ==
  /\ pc = "done"
  /\ InvokedCompile
  /\ tick.ranUnder = null
  /\ tick.blocks = 1

\* C9: a syntax or reference error of compile ends the tick: update
\* throws it and the continuation is not called.
C9_CompileErrorPropagates ==
  (tick.error # null
     /\ Val(tick.error).type \in {"SyntaxError", "ReferenceError"}) =>
    /\ pc = "thrown"
    /\ tick.blocks = 0
    /\ tick.ranUnder = null

\* An instance that has a program throws a reference error of compile.
C9_Witness ==
  /\ pc = "thrown"
  /\ tick.error # null
  /\ Val(tick.error).type = "ReferenceError"
  /\ IsSome(tick.before.injectContext)
  /\ InvokedCompile

\* C10: when a source generator has thrown, the compiled texts, the
\* uncompiled sources, the memo and the registered command are what they
\* were before the tick.
C10_GeneratorErrorLeavesState ==
  (pc = "thrown" /\ Val(tick.error).type = "GeneratorError") =>
    Snapshot = tick.before

\* The call made last is a compile that ran the directive walk on its
\* source.
WalkedCompile == call.op = "compile" /\ call.walks > 0

\* C11: an include <p> looks up the store path p, with the extension that
\* ends p stripped, whatever the name the including source is compiled
\* under; a quoted include "./p" or "p" in the fragment registered at d/f
\* or d/g looks up d/p.
C11_IncludeResolves ==
  LET \* the path p without the extension that ends it
      TrailingExtStripped(p) == Slice(p, 1, Len(p) - Len(extname(p)))
      \* the paths the sources include between angle brackets
      AnglePaths ==
        { Path.b, Path.df, Path.w, Path.z, Path.m,
          Path.p \o << ".", "g" >>, Path.q \o << ".", "g" >> }
  IN
  WalkedCompile =>
    /\ \A p \in AnglePaths :
         call.source = Include(Angle(p)) =>
           /\ call.lookups # <<>>
           /\ call.lookups[1] = TrailingExtStripped(p)
    /\ \A i \in 1..Len(call.lookups) :
         call.lookups[i] \in {Path.df, Path.dg} =>
           \/ i = Len(call.lookups)
           \/ call.lookups[i + 1] = Path.dp

\* C12: a ReferenceError names the argument of the include that was not
\* found and carries as its trace one frame for every include that encloses
\* the failing directive, from the source of the call down, at any depth.
C12_ReferenceErrorTrace ==
  LET \* the text the directive that failed is in: the fragment looked up
      \* last before the path that was not found, or the source of the call
      FailingText ==
        IF Len(call.lookups) > 1
        THEN IncludeStore[call.lookups[Len(call.lookups) - 1]]
        ELSE call.source
  IN
  (/\ call.op = "compile"
   /\ call.err # null
   /\ Val(call.err).type = "ReferenceError") =>
    /\ IndexOf(FailingText, Include(Val(call.err).arg)) > 0
    /\ [i \in 1..Len(Val(call.err).trace) |-> Val(call.err).trace[i][1]]
         = Slice(call.lookups, 1, Len(call.lookups) - 1)

\* C13: an include whose argument does not open with '<' or '"', does not
\* close with '>' or '"', or opens with one and closes with the other
\* raises a SyntaxError that names the unexpected token and the delimiter
\* expected, and looks no fragment up; '<' closed by '"' reports '"' as
\* unexpected and '>' as expected.
C13_MalformedInclude ==
  (/\ WalkedCompile
   /\ call.source \in { Source.angleQuote, Source.quoteAngle,
                        Source.noOpening, Source.noClosing }) =>
    /\ call.err # null
    /\ Val(call.err).type = "SyntaxError"
    /\ Val(call.err).unexpected # <<>>
    /\ Val(call.err).expected # <<>>
    /\ call.lookups = <<>>
    /\ call.source = Source.angleQuote =>
         /\ Val(call.err).unexpected = << "\"" >>
         /\ Val(call.err).expected = << << ">" >> >>

\* The include that opens with '<' and closes with '"' has been walked and
\* has raised its error.
C13_Witness ==
  /\ WalkedCompile
  /\ call.source = Source.angleQuote
  /\ call.err # null
  /\ Val(call.err).type = "SyntaxError"

\* The parts occur in the text from index i on, one after the other.
RECURSIVE InOrder(_, _, _)
InOrder(text, parts, i) ==
  IF parts = <<>> THEN TRUE
  ELSE LET at == IndexFrom(text, Head(parts), i) IN
         at > 0 /\ InOrder(text, Tail(parts), at + Len(Head(parts)))

\* C14: the text compiled from a source that includes fragments holds the
\* content of every fragment at the place of its directive, nested
\* includes in place: '#include <b>' gives '#define FOO 1', the body of a
\* and the body of b in that order.
C14_SplicedInPlace ==
  LET \* what the sources that include fragments expand to: the contents of
      \* the fragments in the order of the directives, nested ones in place
      Expansion ==
        (Source.includeB :> << Text.foo \o << " ", "1" >>, Text.a, Text.b >>)
        @@ (Source.includeDF :> << Text.dp, Text.f >>)
        @@ (Source.includeH :> << Text.h, << "x", "t" >> >>)
        @@ (Source.includeUV :> << Text.u, Text.v >>)
  IN
  (WalkedCompile /\ call.source \in DOMAIN Expansion) =>
    /\ call.err = null
    /\ InOrder(Val(call.ret), Expansion[call.source], 1)

Compiled == WalkedCompile /\ call.err = null /\ IsSome(call.ret)

\* The number of places from index i on where pat occurs in the text.
RECURSIVE Occurrences(_, _, _)
Occurrences(text, pat, i) ==
  LET at == IndexFrom(text, pat, i) IN
    IF at = 0 THEN 0 ELSE 1 + Occurrences(text, pat, at + 1)

CanonicalHeader == Header(kDefaultShaderLibPrecision) \o << NL >>

C17_SinglePrecision ==
  Compiled =>
    /\ StartsWith(Val(call.ret), CanonicalHeader)
    /\ Occurrences(Val(call.ret), kPrecisionWord, 1) = 1

\* C17: every text produced by a compile that ran the walk starts with the
\* canonical precision declaration and holds no other declaration of the
\* precision of float, be it written in the source or carried by an
\* included fragment; a declaration for sampler2D, whose name holds a
\* digit, stays where it is, after the canonical one.
C17_SingleFloatPrecision ==
  Compiled =>
    /\ StartsWith(Val(call.ret), CanonicalHeader)
    /\ Occurrences(Val(call.ret), << "f", "l", "o", "a", "t", ";" >>, 1) = 1
    /\ call.source = Source.precisionSampler =>
         Val(call.ret)
           = CanonicalHeader \o Text.sampler \o << NL, "x", "u", NL >>

\* A source that includes a fragment with a precision statement of its own
\* has been compiled after a source that has one.
C17_Witness ==
  /\ Compiled
  /\ call.source = Source.includeH
  /\ call.lookups = << Path.h >>
  /\ call.walks = 2
  /\ Source.precision \in history.returned

\* C18: the text compile returns has no empty line between its first and
\* its last line.
C18_NoEmptyLine ==
  LET \* the lines of a text returned, the newline that ends it set aside
      ReturnedLines(text) ==
        SplitNL(IF text # <<>> /\ text[Len(text)] = NL
                THEN Slice(text, 1, Len(text) - 1) ELSE text)
  IN
  (call.op = "compile" /\ call.err = null /\ IsSome(call.ret)) =>
    \A i \in 2..(Len(ReturnedLines(Val(call.ret))) - 1) :
      ReturnedLines(Val(call.ret))[i] # <<>>

\* The string a value is stored as: "1" for true, "0" for false, the text
\* of anything else.
Coerced(value) ==
  IF value = BoolVal(TRUE) THEN One
  ELSE IF value = BoolVal(FALSE) THEN Zero
  ELSE value.s

\* The define table holds s under the key.
Holds(table, key, s) ==
  \E i \in 1..Len(table) : table[i] = << key, s >>

\* C19: define(name, value) stores the value as a string, "1" for true and
\* "0" for false, and returns true exactly when the name was absent or held
\* another string; when the string is the one held, or the value is null,
\* it returns false and the table is as it was.
C19_DefineOne ==
  call.op = "define" =>
    IF call.value = NullVal
    THEN ~call.before /\ preprocessorDefines = call.defined
    ELSE /\ call.before = ~Holds(call.defined, call.name, Coerced(call.value))
         /\ Holds(preprocessorDefines, call.name, Coerced(call.value))
         /\ ~call.before => preprocessorDefines = call.defined
         /\ \A i \in 1..Len(call.defined) :
              call.defined[i][1] # call.name =>
                Holds(preprocessorDefines, call.defined[i][1],
                      call.defined[i][2])

\* define(X, true) has returned false for a table that held "1" under X.
C19_Witness ==
  /\ call.op = "define"
  /\ call.value = BoolVal(TRUE)
  /\ Holds(call.defined, call.name, One)
  /\ ~call.before

\* C20: define(map) calls define for every key of the map, also after a
\* key that changed, and returns true exactly when the stored value of at
\* least one key changed.
C20_DefineMap ==
  call.op = "defineMap" =>
    /\ \A i \in 1..Len(call.map) :
         call.map[i][2] # NullVal =>
           Holds(preprocessorDefines, call.map[i][1],
                 Coerced(call.map[i][2]))
    /\ call.before = (preprocessorDefines # call.defined)

\* define(map) has changed the value of its first key and of its second.
C20_Witness ==
  /\ call.op = "defineMap"
  /\ Len(call.map) = 2
  /\ call.before
  /\ \A i \in 1..2 :
       /\ call.map[i][2] # NullVal
       /\ ~Holds(call.defined, call.map[i][1], Coerced(call.map[i][2]))

\* C30: when a tick has run its continuation and a define name is given
\* both by the upstream context and by the frame state, the instance's
\* define table holds the frame state's value under that name, and so does
\* the context the continuation and the scopes nested in it ran under.
C30_InstanceDefineWins ==
  pc = "done" =>
    \A i \in 1..Len(state.defines) :
      ObjHas(tick.upstream, state.defines[i][1]) =>
        /\ ObjHas(defines, state.defines[i][1])
        /\ ObjGet(defines, state.defines[i][1]) = state.defines[i][2]
        /\ ObjHas(reglContext, state.defines[i][1])
        /\ ObjGet(reglContext, state.defines[i][1]) = state.defines[i][2]

\* Two texts are made of the same characters: each character stands as
\* often in one as in the other.
SameCharacters(s, t) ==
  /\ Len(s) = Len(t)
  /\ \A i \in 1..Len(s) :
       Cardinality({j \in 1..Len(s) : s[j] = s[i]})
         = Cardinality({j \in 1..Len(t) : t[j] = s[i]})

\* C23: the hash of a source given to compile differs from the hash of
\* every other text compiled before it that is made of the same characters
\* in another order.
C23_NoCollisionOnReordering ==
  call.op = "compile" =>
    \A s \in history.texts :
      (s # call.source /\ SameCharacters(s, call.source))
        => hash(Some(s)) # hash(Some(call.source))

\* C22: a compile whose key the cache holds an entry under returns that
\* entry and runs no directive walk, whatever text the entry was written
\* for.
C22_CollisionIsHit ==
  (call.op = "compile" /\ IsSome(call.cached)) =>
    /\ call.walks = 0
    /\ call.err = null
    /\ call.ret = call.cached
    /\ cache[Val(call.key)] = Val(call.cached)

\* A source was compiled whose key was that of another source compiled
\* before it, and the text of that other source came back.
C22_Witness ==
  /\ call.op = "compile"
  /\ IsSome(call.cached)
  /\ call.walks = 0
  /\ \E a \in DOMAIN history.entry :
       /\ a[2] # <<>>
       /\ call.source # <<>>
       /\ a[2] # call.source
       /\ history.entry[a] = Val(call.key)
       /\ call.ret = Some(CanonicalHeader \o a[2])


C24_OneSharedEntry ==
  /\ (call.op = "peerCompile" /\ call.err = null /\ IsSome(call.cached))
       => call.walks = 0
  /\ (/\ call.op = "compile"
      /\ call.err = null
      /\ IsSome(call.key)
      /\ Val(call.key) \in DOMAIN peerCache)
       => call.walks = 0
  /\ DOMAIN cache \cap DOMAIN peerCache = {}


\* C25: a compile that raises a syntax or reference error leaves the cache
\* without an entry under the key of its source, and while the store is as
\* it was, a compile of a source that raised such an error raises the same
\* error again.
C25_FailureCachesNothing ==
  /\ (/\ call.op = "compile"
      /\ call.err # null
      /\ Val(call.err).type \in {"SyntaxError", "ReferenceError"}
      /\ IsSome(call.key))
       => Val(call.key) \notin DOMAIN cache
  /\ (/\ call.op = "compile"
      /\ call.failed # null
      /\ Val(call.failed).type \in {"SyntaxError", "ReferenceError"})
       => call.err = call.failed


\* C26: registration is idempotent.  An add of a path with the source the
\* store already holds for it leaves the store and the number of cache
\* entries as they were, and a get of the path after it returns what the
\* get of the path before it returned.
C26_AddTwiceIdempotent ==
  [][/\ (/\ call'.op = "add"
         /\ call'.value.type = "string"
         /\ call'.name \in DOMAIN store
         /\ store[call'.name] = call'.value.s)
          => /\ store' = store
             /\ Cardinality(DOMAIN cache') = Cardinality(DOMAIN cache)
     /\ (call'.op = "get" /\ call'.readded /\ IsSome(call'.previous))
          => call'.ret = call'.previous]_vars


\* C27: get(path) returns, for a path registered with a string source, the
\* compiled text of the source stored at the path: a text, and when the
\* call walked with an empty cache behind it, the text assembled from that
\* source; it returns null for an unregistered or non-string path.
C27_GetReturnsCompiledText ==
  call.op = "get" =>
    IF call.before
      THEN call.err = null =>
           /\ IsSome(call.ret)
           /\ (call.walks > 0 /\ Cardinality(DOMAIN cache) = 1) =>
             LET lib == [shaderLib EXCEPT !.cache = EmptyTable]
                 walked ==
                   process(call.name,
                           injectShaderNameDefine(call.name, store[call.name]),
                           lib, 0)
                 text == CompiledLines(injectShaderPrecision(Val(walked.ret),
                                                             lib.precision))
             IN /\ walked.err = null
                /\ call.ret \in {Some(text), Some(text \o << NL >>)}
    ELSE call.err = null /\ call.ret = null


\* What the text wares of a middleware list append, in the order of the
\* list, when a ware that returns no text leaves the text as it is.
RECURSIVE Appended(_, _)
Appended(wares, i) ==
  IF i > Len(wares) THEN <<>>
  ELSE (IF wares[i].returns = "text" THEN wares[i].suffix ELSE <<>>)
       \o Appended(wares, i + 1)

\* C28: the registered middleware runs in registration order on every
\* walk, each on the text the one before it produced, the first on the
\* serialized tokens, and a middleware that returns null or undefined
\* leaves the text it received to the next.  A compile that walks returns
\* the text assembled from the serialized tokens followed by what the
\* middleware appended, in order.
C28_MiddlewareInOrder ==
  (call.op = "compile" /\ call.source = SourceAB /\ call.cached = null) =>
    LET lib == [shaderLib EXCEPT !.middleware = <<>>, !.cache = EmptyTable]
        plain == process(call.name,
                         injectShaderNameDefine(call.name, call.source),
                         lib, 0)
        text == CompiledLines(
                  injectShaderPrecision(
                    Val(plain.ret) \o Appended(middleware, 1),
                    lib.precision))
    IN /\ call.err = null
       /\ call.walks = 1
       /\ call.ret = Some(text \o << NL >>)


\* The paths of the store that a text includes, and the paths reached from
\* a set of paths in n rounds of includes.
IncludedBy(text) ==
  {q \in DOMAIN store : IndexOf(text, Include(Angle(q))) # 0}

RECURSIVE ReachableFrom(_, _)
ReachableFrom(paths, n) ==
  IF n = 0 THEN paths
  ELSE ReachableFrom(paths \cup UNION {IncludedBy(store[p]) : p \in paths},
                     n - 1)

\* The include graph reachable from a text in the store has no cycle.
AcyclicFrom(text) ==
  \A p \in ReachableFrom(IncludedBy(text), Cardinality(DOMAIN store)) :
    p \notin ReachableFrom(IncludedBy(store[p]), Cardinality(DOMAIN store))

C31_NoStaleInclude ==
  (/\ call.op = "compile"
   /\ call.source = Include(Angle(Path.k))
   /\ call.err = null) =>
    /\ IsSome(call.ret)
    /\ \A content \in {Text.k, [i \in 1..17 |-> "z"]} :
         (IndexOf(Val(call.ret), content) # 0)
           <=> (IndexOf(store[Path.k], content) # 0)


\* C32: after the value of a define has changed in the define table, a
\* compile of a source that was compiled before the change returns text
\* whose #define prologue carries the new value.  The text a compile
\* returns holds the "#define X value" line of the value the table has at
\* the call, and of no other value.
C32_CurrentDefines ==
  (call.op = "compile" /\ call.err = null /\ IsSome(call.ret)) =>
    \A value \in {One, Two} :
      (IndexOf(Val(call.ret),
               injectDefines(<<>>, << << DefineX, value >> >>)) # 0)
        <=> (\E i \in 1..Len(preprocessorDefines) :
               preprocessorDefines[i] = << DefineX, value >>)


\* C33: a define change is never silently dropped.  When the compile that
\* a change of the define table triggered has raised, no later call of
\* update reaches its continuation and returns before a compile under the
\* changed defines has been made, also when the defines and the source of
\* the later call are those the instance has recorded.
C33_DefineChangeServed ==
  pc = "done" => ~tick.unserved


\* C34: the define names of a Shader never shrink across ticks.  A name
\* the frame state or the upstream context has supplied in some tick is in
\* the instance's defines and in the define table of its preprocessor ever
\* after, and in a tick in which neither supplies it, it has the value
\* that was supplied last.
C34_DefinesKept ==
  \A i \in 1..Len(tick.supplied) :
    LET name == tick.supplied[i][1]
        last == tick.supplied[i][2]
    IN /\ ObjHas(defines, name)
       /\ ObjHas(preprocessorDefines, name)
       /\ (/\ pc # "idle"
           /\ ~ObjHas(state.defines, name)
           /\ ~ObjHas(tick.upstream, name))
            => /\ ObjGet(defines, name) = last
               /\ ObjGet(preprocessorDefines, name) = last.s

=============================================================================
